---- MODULE Spec2Model ----
(***************************************************************************)
(* A model of the Chessforces game-state engine: the rules engine of       *)
(* lib/chess (initialBoard, isValidMove, isPathClear, makeMove,            *)
(* getValidMoves), the session store of lib/db (createGame, getGame,       *)
(* updateGame, joinGame) and the route handler POST /api/game/[id]         *)
(* (actions join and move).                                                *)
(*                                                                         *)
(* Every await of the code is a point where another request may run, so a  *)
(* request is a sequence of steps, one per stretch of code between awaits. *)
(* Both storage back ends are modelled: the key-value store, which         *)
(* serialises a record on set and hands out a fresh copy on get, and the   *)
(* process-local Map, which hands out the stored object itself.            *)
(***************************************************************************)
EXTENDS Integers, Sequences, FiniteSets, TLC

VARIABLES
  useRedis,   \* TRUE: the key-value store is configured; FALSE: the Map
  store,      \* the record stored under the game id: an address, 0 if none
  recs,       \* heap of GameState objects, by address
  seats,      \* heap of the players / playerNames object pairs, by address
  pc,         \* per request slot: where the request stands
  game,       \* per request slot: the handler's (joinGame's) local `game`
  ugame,      \* per request slot: updateGame's local `game`
  upd,        \* per request slot: the move's `updates` and its inputs
  clock,      \* Date.now()
  last,       \* history: the request the latest step completed, if any
  hist,       \* history: the moves accepted since the session was created
  rules       \* a direct call of the rules engine: its inputs and results

vars ==
  <<useRedis, store, recs, seats, pc, game, ugame, upd, clock, last, hist,
    rules>>

-----------------------------------------------------------------------------
(* Bounds *)

NumProcs == 2
MaxClock == 1

Procs == 1..NumProcs
NAddr == 1 + 2 * NumProcs
Addrs == 1..NAddr

-----------------------------------------------------------------------------
(* Values *)

NULL == "<null>"             \* JavaScript null
UNDEF == "<undefined>"       \* JavaScript undefined: an absent body field
EMPTY == ""                  \* the empty string

Falsy(v) == v \in {NULL, UNDEF, EMPTY}

Rows == 0..7
Pos(r, c) == [row |-> r, col |-> c]
InGrid(p) == p.row \in Rows /\ p.col \in Rows

None == [type |-> "-", color |-> "-"]        \* null: an empty square
Pc(t, c) == [type |-> t, color |-> c]

BackRank == <<"r", "n", "b", "q", "k", "b", "n", "r">>

\* initialBoard with the white king and queen on each other's squares.
initialBoard_KingQueenSwapped ==
  [r \in Rows |->
    [c \in Rows |->
      CASE r = 0 -> Pc(BackRank[c + 1], "b")
        [] r = 1 -> Pc("p", "b")
        [] r = 6 -> Pc("p", "w")
        [] r = 7 -> Pc(<<"r", "n", "b", "k", "q", "b", "n", "r">>[c + 1], "w")
        [] OTHER -> None]]

initialBoard ==
  [r \in Rows |->
    [c \in Rows |->
      CASE r = 0 -> Pc(BackRank[c + 1], "b")
        [] r = 1 -> Pc("p", "b")
        [] r = 6 -> Pc("p", "w")
        [] r = 7 -> Pc(BackRank[c + 1], "w")
        [] OTHER -> None]]

Abs(x) == IF x < 0 THEN -x ELSE x
Sign(x) == IF x > 0 THEN 1 ELSE IF x < 0 THEN -1 ELSE 0

\* board[p.row][p.col]; undefined (read as no piece) when the column is off
\* the row.  The row is in the grid wherever this is used.
At(board, p) == IF InGrid(p) THEN board[p.row][p.col] ELSE None

\* isPathClear that finds every path clear.
isPathClear_Open(board, from, to) == TRUE

\* The squares the while loop of isPathClear visits: from + k * step for
\* k = 1 .. (distance - 1).  Used only on straight and diagonal lines.
isPathClear(board, from, to) ==
  LET rowStep == Sign(to.row - from.row)
      colStep == Sign(to.col - from.col)
      dist == IF Abs(to.row - from.row) > Abs(to.col - from.col)
              THEN Abs(to.row - from.row) ELSE Abs(to.col - from.col)
  IN \A k \in 1..(dist - 1) :
       board[from.row + k * rowStep][from.col + k * colStep] = None

\* isValidMove with one of its checks left out or changed, by name v:
\*   "grid"   no range check of `to` (line 41)
\*   "color"  no comparison of the piece's colour with `turn` (line 40)
\*   "self"   no own-piece check of the target (line 44)
\*   "jump"   the pawn's double step ignores the square it passes (line 55)
\*   "diag"   the pawn's diagonal step needs no target (line 57)
\*   "queen"  the queen moves along rows and columns only (line 76)
\*   "knight" the knight needs the diagonal square next to it free (line 67)
isValidMoveVariant(board, from, to, turn, v) ==
  LET piece == At(board, from) IN
  IF piece = None \/ (v # "color" /\ piece.color # turn) THEN FALSE
  ELSE IF v # "grid" /\ (to.row < 0 \/ to.row > 7 \/ to.col < 0 \/ to.col > 7)
    THEN FALSE
  ELSE
    LET target == At(board, to)
        rowDiff == to.row - from.row
        colDiff == to.col - from.col
    IN
    IF v # "self" /\ target # None /\ target.color = piece.color THEN FALSE
    ELSE
      CASE piece.type = "p" ->
             LET direction == IF piece.color = "w" THEN -1 ELSE 1
                 startRow == IF piece.color = "w" THEN 6 ELSE 1
             IN \/ /\ colDiff = 0
                   /\ target = None
                   /\ \/ rowDiff = direction
                      \/ /\ from.row = startRow
                         /\ rowDiff = 2 * direction
                         /\ \/ v = "jump"
                            \/ board[from.row + direction][from.col] = None
                \/ /\ Abs(colDiff) = 1
                   /\ rowDiff = direction
                   /\ (v = "diag" \/ target # None)
        [] piece.type = "r" ->
             (rowDiff = 0 \/ colDiff = 0) /\ isPathClear(board, from, to)
        [] piece.type = "n" ->
             /\ \/ Abs(rowDiff) = 2 /\ Abs(colDiff) = 1
                \/ Abs(rowDiff) = 1 /\ Abs(colDiff) = 2
             /\ \/ v # "knight"
                \/ At(board, Pos(from.row + Sign(rowDiff),
                                 from.col + Sign(colDiff))) = None
        [] piece.type = "b" ->
             Abs(rowDiff) = Abs(colDiff) /\ isPathClear(board, from, to)
        [] piece.type = "q" ->
             (rowDiff = 0 \/ colDiff = 0
                \/ (v # "queen" /\ Abs(rowDiff) = Abs(colDiff)))
               /\ isPathClear(board, from, to)
        [] piece.type = "k" ->
             Abs(rowDiff) <= 1 /\ Abs(colDiff) <= (IF v = "king" THEN 2 ELSE 1)
        [] OTHER -> FALSE

isValidMove_NoGridCheck(board, from, to, turn) ==
  isValidMoveVariant(board, from, to, turn, "grid")
isValidMove_AnyColor(board, from, to, turn) ==
  isValidMoveVariant(board, from, to, turn, "color")
isValidMove_SelfCapture(board, from, to, turn) ==
  isValidMoveVariant(board, from, to, turn, "self")
isValidMove_PawnJumps(board, from, to, turn) ==
  isValidMoveVariant(board, from, to, turn, "jump")
isValidMove_PawnDiagonal(board, from, to, turn) ==
  isValidMoveVariant(board, from, to, turn, "diag")
isValidMove_QueenAsRook(board, from, to, turn) ==
  isValidMoveVariant(board, from, to, turn, "queen")
isValidMove_KnightBlocked(board, from, to, turn) ==
  isValidMoveVariant(board, from, to, turn, "knight")
isValidMove_KingCastles(board, from, to, turn) ==
  isValidMoveVariant(board, from, to, turn, "king")

\* isValidMove for a `from` whose row is in the grid; see isValidMoveThrows.
isValidMove(board, from, to, turn) ==
  LET piece == At(board, from) IN
  IF piece = None \/ piece.color # turn THEN FALSE
  ELSE IF to.row < 0 \/ to.row > 7 \/ to.col < 0 \/ to.col > 7 THEN FALSE
  ELSE
    LET target == board[to.row][to.col]
        rowDiff == to.row - from.row
        colDiff == to.col - from.col
    IN
    IF target # None /\ target.color = piece.color THEN FALSE
    ELSE
      CASE piece.type = "p" ->
             LET direction == IF piece.color = "w" THEN -1 ELSE 1
                 startRow == IF piece.color = "w" THEN 6 ELSE 1
             IN \/ /\ colDiff = 0
                   /\ target = None
                   /\ \/ rowDiff = direction
                      \/ /\ from.row = startRow
                         /\ rowDiff = 2 * direction
                         /\ board[from.row + direction][from.col] = None
                \/ /\ Abs(colDiff) = 1
                   /\ rowDiff = direction
                   /\ target # None
        [] piece.type = "r" ->
             (rowDiff = 0 \/ colDiff = 0) /\ isPathClear(board, from, to)
        [] piece.type = "n" ->
             \/ Abs(rowDiff) = 2 /\ Abs(colDiff) = 1
             \/ Abs(rowDiff) = 1 /\ Abs(colDiff) = 2
        [] piece.type = "b" ->
             Abs(rowDiff) = Abs(colDiff) /\ isPathClear(board, from, to)
        [] piece.type = "q" ->
             (rowDiff = 0 \/ colDiff = 0 \/ Abs(rowDiff) = Abs(colDiff))
               /\ isPathClear(board, from, to)
        [] piece.type = "k" ->
             Abs(rowDiff) <= 1 /\ Abs(colDiff) <= 1
        [] OTHER -> FALSE

\* The squares in the order of the two loops of getValidMoves.
Squares == [i \in 1..64 |-> Pos((i - 1) \div 8, (i - 1) % 8)]

\* getValidMoves with the two loops exchanged: columns outside, rows inside.
getValidMoves_ColumnMajor(board, from, turn) ==
  SelectSeq([i \in 1..64 |-> Pos((i - 1) % 8, (i - 1) \div 8)],
            LAMBDA to : isValidMove(board, from, to, turn))

\* getValidMoves for a `from` whose row is in the grid.
getValidMoves(board, from, turn) ==
  SelectSeq(Squares, LAMBDA to : isValidMove(board, from, to, turn))

\* board[from.row] is undefined when from.row is off the grid, and reading
\* [from.col] of it raises a TypeError.
isValidMoveThrows(board, from, to, turn) == from.row \notin Rows

\* makeMove without the line that empties the source square.
makeMove_KeepsSource(board, from, to) ==
  [board EXCEPT ![to.row][to.col] = board[from.row][from.col]]

\* makeMove that puts what stood on the destination back on the source.
makeMove_Swap(board, from, to) ==
  LET moved == board[from.row][from.col]
      placed == [board EXCEPT ![to.row][to.col] = moved]
  IN [placed EXCEPT ![from.row][from.col] = board[to.row][to.col]]

\* makeMove that also empties the square of the destination's row in the
\* source's column.
makeMove_ClearsCorner(board, from, to) ==
  LET moved == board[from.row][from.col]
      placed == [board EXCEPT ![to.row][to.col] = moved]
      left == [placed EXCEPT ![from.row][from.col] = None]
  IN IF from.row = to.row \/ from.col = to.col THEN left
     ELSE [left EXCEPT ![to.row][from.col] = None]

\* makeMove that makes a queen of every pawn it moves.
makeMove_Promotes(board, from, to) ==
  LET moved == board[from.row][from.col]
      arrived == IF moved # None /\ moved.type = "p"
                 THEN Pc("q", moved.color) ELSE moved
      placed == [board EXCEPT ![to.row][to.col] = arrived]
  IN [placed EXCEPT ![from.row][from.col] = None]

makeMove(board, from, to) ==
  LET moved == board[from.row][from.col]
      placed == [board EXCEPT ![to.row][to.col] = moved]
  IN [placed EXCEPT ![from.row][from.col] = None]

-----------------------------------------------------------------------------
(* The heap.  A GameState object is a cell of recs; its players and         *)
(* playerNames objects are created together, copied together and shared     *)
(* together, so one cell of seats holds both.  Address 0 is null.           *)

GameId == "g1"

\* players: { white: null, black: null }, playerNames: { white: null, black: null }
NoSeats == [white |-> NULL, black |-> NULL, whiteName |-> NULL, blackName |-> NULL]

FreeSeat == [free |-> TRUE]

\* An unused cell of the heap.
FreeRec == [free |-> TRUE]

New == NAddr + 1

Ext(h, v) == [a \in 1..New |-> IF a <= NAddr THEN h[a] ELSE v]

\* The references a request or the storage holds, in a fixed order.
Roots(st, g, u) ==
  [i \in 1..NAddr |->
    IF i = 1 THEN st ELSE IF i % 2 = 0 THEN g[i \div 2] ELSE u[i \div 2]] \o <<>>

\* The distinct non-null addresses of seq, in the order of their first
\* occurrence.
Distinct(seq) ==
  LET firsts == {i \in DOMAIN seq :
                   seq[i] # 0 /\ \A j \in 1..(i - 1) : seq[j] # seq[i]}
      nth(n) == CHOOSE i \in firsts : Cardinality({k \in firsts : k <= i}) = n
  IN [n \in 1..Cardinality(firsts) |-> seq[nth(n)]] \o <<>>

NewName(ord, a) ==
  IF a = 0 THEN 0 ELSE CHOOSE n \in DOMAIN ord : ord[n] = a

\* Garbage collection: objects nothing refers to are dropped and the rest
\* are renumbered in the order of Roots.  An address is no program value,
\* so this changes nothing the code can observe.
Canon(st, g, u, rh, sh) ==
  LET ord == Distinct(Roots(st, g, u))
      sord == Distinct([n \in DOMAIN ord |-> rh[ord[n]].players] \o <<>>)
  IN [store |-> NewName(ord, st),
      game |-> [p \in Procs |-> NewName(ord, g[p])],
      ugame |-> [p \in Procs |-> NewName(ord, u[p])],
      recs |-> [n \in Addrs |->
                 IF n <= Len(ord)
                 THEN [rh[ord[n]] EXCEPT !.players = NewName(sord, @)]
                 ELSE FreeRec],
      seats |-> [n \in Addrs |->
                  IF n <= Len(sord) THEN sh[sord[n]] ELSE FreeSeat]]

Commit(st, g, u, rh, sh) ==
  LET c == Canon(st, g, u, rh, sh) IN
  /\ store' = c.store
  /\ game' = c.game
  /\ ugame' = c.ugame
  /\ recs' = c.recs
  /\ seats' = c.seats

\* A GameState by value, as JSON shows it.
View(rh, sh, a) ==
  [id |-> rh[a].id, board |-> rh[a].board, turn |-> rh[a].turn,
   white |-> sh[rh[a].players].white, black |-> sh[rh[a].players].black,
   whiteName |-> sh[rh[a].players].whiteName,
   blackName |-> sh[rh[a].players].blackName,
   status |-> rh[a].status, winner |-> rh[a].winner,
   lastMove |-> rh[a].lastMove]

NoView == [absent |-> TRUE]

\* What a GET of the game id would read now.
Stored == IF store = 0 THEN NoView ELSE View(recs, seats, store)

\* getGame: the stored object itself from the Map, a deserialised copy
\* from the key-value store, null when the key is absent.
getGame(st, rh, sh) ==
  IF st = 0 THEN [ref |-> 0, rh |-> Ext(rh, FreeRec), sh |-> Ext(sh, FreeSeat)]
  ELSE IF useRedis
    THEN [ref |-> New,
          rh |-> Ext(rh, [rh[st] EXCEPT !.players = New]),
          sh |-> Ext(sh, sh[rh[st].players])]
    ELSE [ref |-> st, rh |-> Ext(rh, FreeRec), sh |-> Ext(sh, FreeSeat)]

\* set: the Map stores the new object `rec` (whose players object is the one
\* it was spread from); the key-value store keeps a serialised copy.
\* rh and sh are heaps whose cell New is free.
setGame(rec, rh, sh) ==
  IF useRedis
  THEN [st |-> New,
        rh |-> [rh EXCEPT ![New] = [rec EXCEPT !.players = New]],
        sh |-> [sh EXCEPT ![New] = sh[rec.players]]]
  ELSE [st |-> New, rh |-> [rh EXCEPT ![New] = rec], sh |-> sh]

-----------------------------------------------------------------------------
(* Requests *)

NoPos == Pos(-9, -9)

\* What a request keeps across the await inside updateGame: the updates
\* object of a move and, as history, the request's inputs and the colour
\* joinGame is about to return.
NoUpd ==
  [updates |-> <<>>, playerId |-> NULL, name |-> NULL,
   from |-> NoPos, to |-> NoPos, color |-> NULL]

NoLast ==
  [proc |-> 0, op |-> "none", playerId |-> NULL, name |-> NULL,
   from |-> NoPos, to |-> NoPos, code |-> 0, error |-> NULL,
   color |-> NULL, wrote |-> FALSE, session |-> NoView]

\* The accepted moves of the session: how many, who made the latest, the
\* latest and the one before it.  The history is kept (on) only in the
\* specifications whose properties read it.
NoMove == [from |-> NoPos, to |-> NoPos]
NoHist ==
  [on |-> FALSE, n |-> 0, mover |-> "<none>", move |-> NoMove, prev |-> NoMove,
   told |-> {}]
NewHist == [NoHist EXCEPT !.on = TRUE]

\* The history after a request was given `answer`: a join answered with a
\* colour adds the pair of its player id and that colour.
Told(h, answer) ==
  IF h.on /\ answer.op = "join" /\ answer.code = 200
  THEN [h EXCEPT !.told = @ \cup {<<answer.playerId, answer.color>>}]
  ELSE h

\* No call of the rules engine outside a request.
NoRules ==
  [op |-> "none", board |-> <<>>, from |-> NoPos, turn |-> "-",
   valid |-> {}, moves |-> <<>>, to |-> NoPos, result |-> <<>>]

\* A fresh server process: nothing stored, no request under way.
InitSession ==
  /\ useRedis \in BOOLEAN
  /\ store = 0
  /\ recs = [a \in Addrs |-> FreeRec]
  /\ seats = [a \in Addrs |-> FreeSeat]
  /\ pc = [p \in Procs |-> "idle"]
  /\ game = [p \in Procs |-> 0]
  /\ ugame = [p \in Procs |-> 0]
  /\ upd = [p \in Procs |-> NoUpd]
  /\ clock = 0
  /\ last = NoLast

Init == InitSession /\ hist = NoHist /\ rules = NoRules

\* The same, with the history of accepted moves kept.
HistInit == InitSession /\ hist = NewHist /\ rules = NoRules

\* A request may start in slot p: the slot is free and, in a sequential
\* execution, no other request is under way.
CanStart(p, seq) ==
  /\ pc[p] = "idle"
  /\ seq => \A q \in Procs : pc[q] = "idle"

\* Time passes.
Tick ==
  /\ clock < MaxClock
  /\ clock' = clock + 1
  /\ last' = NoLast
  /\ UNCHANGED <<useRedis, store, recs, seats, pc, game, ugame, upd, hist, rules>>

\* createGame with an existence check: a stored session is kept and is the
\* answer.
createGame_IfAbsent(p) ==
  IF store = 0
  THEN LET rec == [id |-> GameId, board |-> initialBoard, turn |-> "w",
                   players |-> New, status |-> "waiting", winner |-> NULL,
                   lastMove |-> clock]
           rh == Ext(recs, rec)
           sh == Ext(seats, NoSeats)
       IN /\ Commit(New, game, ugame, rh, sh)
          /\ last' = [NoLast EXCEPT !.proc = p, !.op = "create", !.code = 200,
                                    !.wrote = TRUE, !.session = View(rh, sh, New)]
  ELSE /\ Commit(store, game, ugame, recs, seats)
       /\ last' = [NoLast EXCEPT !.proc = p, !.op = "create", !.code = 200,
                                 !.session = View(recs, seats, store)]

\* createGame and the route POST /api/game/create, for a generated id equal
\* to GameId.  Nothing is awaited before the set.
createGame(p) ==
  LET rec == [id |-> GameId, board |-> initialBoard, turn |-> "w",
              players |-> New, status |-> "waiting", winner |-> NULL,
              lastMove |-> clock]
      rh == Ext(recs, rec)
      sh == Ext(seats, NoSeats)
  IN /\ Commit(New, game, ugame, rh, sh)
     /\ last' = [NoLast EXCEPT !.proc = p, !.op = "create", !.code = 200,
                               !.wrote = TRUE, !.session = View(rh, sh, New)]

Create(p, seq) ==
  /\ CanStart(p, seq)
  /\ createGame(p)
  /\ hist' = IF hist.on THEN NewHist ELSE hist
  /\ UNCHANGED <<useRedis, pc, upd, clock, rules>>

\* A request ends: its locals are dropped and its answer is recorded.
Respond(p, st, rh, sh, answer) ==
  /\ Commit(st, [game EXCEPT ![p] = 0], [ugame EXCEPT ![p] = 0], rh, sh)
  /\ pc' = [pc EXCEPT ![p] = "idle"]
  /\ upd' = [upd EXCEPT ![p] = NoUpd]
  /\ last' = answer

\* { ...game, ...updates }: every own key of updates overrides game's.
\* (Written out over the keys of GameState.)
Spread(base, updates) ==
  LET f(k) == IF k \in DOMAIN updates THEN updates[k] ELSE base[k] IN
  [id |-> f("id"), board |-> f("board"), turn |-> f("turn"),
   players |-> f("players"), status |-> f("status"), winner |-> f("winner"),
   lastMove |-> f("lastMove")]

\* updateGame with a compare-and-swap on the turn: a write whose turn the
\* stored record already has is dropped.
updateGame_FirstWriterWins(u, updates, rh, sh) ==
  IF u = 0 \/ ("turn" \in DOMAIN updates /\ rh[u].turn = updates.turn)
  THEN [st |-> store, rh |-> Ext(rh, FreeRec), sh |-> Ext(sh, FreeSeat),
        wrote |-> FALSE]
  ELSE LET updated == [Spread(rh[u], updates) EXCEPT !.lastMove = clock]
           w == setGame(updated, Ext(rh, FreeRec), Ext(sh, FreeSeat))
       IN [st |-> w.st, rh |-> w.rh, sh |-> w.sh, wrote |-> TRUE]

\* updateGame from the return of its getGame: null when the game is gone,
\* else the spread with a fresh lastMove, and the set.
updateGame(u, updates, rh, sh) ==
  IF u = 0 THEN [st |-> store, rh |-> Ext(rh, FreeRec), sh |-> Ext(sh, FreeSeat),
                 wrote |-> FALSE]
  ELSE LET updated == [Spread(rh[u], updates) EXCEPT !.lastMove = clock]
           w == setGame(updated, Ext(rh, FreeRec), Ext(sh, FreeSeat))
       IN [st |-> w.st, rh |-> w.rh, sh |-> w.sh, wrote |-> TRUE]

\* POST, action join, up to the await inside joinGame: getGame is called.
\* (The username was checked before; the model's names all pass.)
JoinLoad(p, seq) ==
  /\ CanStart(p, seq)
  /\ LET l == getGame(store, recs, seats) IN
     Commit(store, [game EXCEPT ![p] = l.ref], ugame, l.rh, l.sh)
  /\ pc' = [pc EXCEPT ![p] = "join_loaded"]
  /\ last' = NoLast
  /\ UNCHANGED <<useRedis, upd, clock, hist, rules>>

\* joinVerdict without the two "already joined" checks.
joinVerdict_NoRejoin(sl, playerId) ==
  IF Falsy(sl.white) THEN "assign_w"
  ELSE IF Falsy(sl.black) THEN "assign_b"
  ELSE "full"

\* joinVerdict with the two slots tried in the other order.
joinVerdict_BlackFirst(sl, playerId) ==
  IF sl.white = playerId THEN "rejoin_w"
  ELSE IF sl.black = playerId THEN "rejoin_b"
  ELSE IF Falsy(sl.black) THEN "assign_b"
  ELSE IF Falsy(sl.white) THEN "assign_w"
  ELSE "full"

\* The branch joinGame takes on the loaded players object.
joinVerdict(sl, playerId) ==
  IF sl.white = playerId THEN "rejoin_w"
  ELSE IF sl.black = playerId THEN "rejoin_b"
  ELSE IF Falsy(sl.white) THEN "assign_w"
  ELSE IF Falsy(sl.black) THEN "assign_b"
  ELSE "full"

\* game.status = 'active'
joinedStatus == "active"

\* joinGame from the return of getGame to the await inside updateGame, or
\* to the handler's answer when nothing is assigned.
joinGame(p, playerId, username) ==
  LET g == game[p]
      sa == recs[g].players
      sl == seats[sa]
      v == joinVerdict(sl, playerId)
      ans == [NoLast EXCEPT !.proc = p, !.op = "join",
                            !.playerId = playerId, !.name = username]
      full == [ans EXCEPT !.code = 400, !.error = "Game is full"]
      assign(color, sl2, status) ==
        LET rh1 == [recs EXCEPT ![g].status = status]
            sh1 == [seats EXCEPT ![sa] = sl2]
            l == getGame(store, rh1, sh1)
        IN /\ Commit(store, game, [ugame EXCEPT ![p] = l.ref], l.rh, l.sh)
           /\ pc' = [pc EXCEPT ![p] = "join_upd"]
           /\ upd' = [upd EXCEPT ![p] = [NoUpd EXCEPT !.playerId = playerId,
                                           !.name = username, !.color = color]]
           /\ last' = NoLast
  IN
  IF g = 0 THEN Respond(p, store, recs, seats, full)
  ELSE CASE v = "rejoin_w" ->
              Respond(p, store, recs, seats,
                [ans EXCEPT !.code = 200, !.color = "w",
                            !.session = View(recs, seats, g)])
         [] v = "rejoin_b" ->
              Respond(p, store, recs, seats,
                [ans EXCEPT !.code = 200, !.color = "b",
                            !.session = View(recs, seats, g)])
         [] v = "assign_w" ->
              assign("w", [sl EXCEPT !.white = playerId, !.whiteName = username],
                     recs[g].status)
         [] v = "assign_b" ->
              assign("b", [sl EXCEPT !.black = playerId, !.blackName = username],
                     joinedStatus)
         [] OTHER -> Respond(p, store, recs, seats, full)

JoinCheck(p, Ids, Names) ==
  /\ pc[p] = "join_loaded"
  /\ \E playerId \in Ids, username \in Names : joinGame(p, playerId, username)
  /\ hist' = Told(hist, last')
  /\ UNCHANGED <<useRedis, clock, rules>>

\* updateGame(gameId, game) after its await, and joinGame's return: the whole
\* mutated game is the updates, and the answer is made whether or not
\* updateGame wrote.
JoinWrite(p) ==
  /\ pc[p] = "join_upd"
  /\ LET g == game[p]
         w == updateGame(ugame[p], recs[g], recs, seats)
     IN Respond(p, w.st, w.rh, w.sh,
          [NoLast EXCEPT !.proc = p, !.op = "join", !.code = 200,
                         !.playerId = upd[p].playerId, !.name = upd[p].name,
                         !.color = upd[p].color, !.wrote = w.wrote,
                         !.session = View(recs, seats, g)])
  /\ hist' = Told(hist, last')
  /\ UNCHANGED <<useRedis, clock, rules>>

\* POST, action move, up to its first await: getGame is called.
MoveLoad(p, seq) ==
  /\ CanStart(p, seq)
  /\ LET l == getGame(store, recs, seats) IN
     Commit(store, [game EXCEPT ![p] = l.ref], ugame, l.rh, l.sh)
  /\ pc' = [pc EXCEPT ![p] = "move_loaded"]
  /\ last' = NoLast
  /\ UNCHANGED <<useRedis, upd, clock, hist, rules>>

\* game.players.white === playerId ? 'w' : game.players.black === playerId ? 'b' : null
playerColor(sl, playerId) ==
  IF sl.white = playerId THEN "w" ELSE IF sl.black = playerId THEN "b" ELSE NULL

\* moveVerdict without the call of isValidMove.
moveVerdict_NoValidation(rec, sl, playerId, from, to) ==
  LET color == IF sl.white = playerId THEN "w"
               ELSE IF sl.black = playerId THEN "b" ELSE NULL IN
  IF color = NULL \/ color # rec.turn THEN "Not your turn"
  ELSE IF from.row \notin Rows \/ ~InGrid(to) THEN "TypeError"
  ELSE "ok"

\* moveVerdict with a check added that refuses to take a king.
moveVerdict_ProtectsKing(rec, sl, playerId, from, to) ==
  LET color == IF sl.white = playerId THEN "w"
               ELSE IF sl.black = playerId THEN "b" ELSE NULL IN
  IF color = NULL \/ color # rec.turn THEN "Not your turn"
  ELSE IF from.row \notin Rows THEN "TypeError"
  ELSE IF ~isValidMove(rec.board, from, to, rec.turn) THEN "Invalid move"
  ELSE IF rec.board[to.row][to.col].type = "k" THEN "Invalid move"
  ELSE "ok"

\* The checks of the move handler on the loaded game, in their order.
moveVerdict(rec, sl, playerId, from, to) ==
  LET color == playerColor(sl, playerId) IN
  IF color = NULL \/ color # rec.turn THEN "Not your turn"
  ELSE IF isValidMoveThrows(rec.board, from, to, rec.turn) THEN "TypeError"
  ELSE IF ~isValidMove(rec.board, from, to, rec.turn) THEN "Invalid move"
  ELSE "ok"

\* moveUpdates with end-of-game detection added: taking a king finishes the
\* game for the mover.
moveUpdates_DeclaresWinner(board, from, to, turn) ==
  LET base == [board |-> makeMove(board, from, to),
               turn |-> IF turn = "w" THEN "b" ELSE "w"] IN
  IF board[to.row][to.col].type = "k"
  THEN [board |-> base.board, turn |-> base.turn,
        status |-> "finished", winner |-> turn]
  ELSE base

\* { board: newBoard, turn: newTurn }
moveUpdates(board, from, to, turn) ==
  [board |-> makeMove(board, from, to),
   turn |-> IF turn = "w" THEN "b" ELSE "w"]

\* The move handler from the return of getGame to the await inside
\* updateGame, or to a rejection.  game is not read after that await.
moveCheck(p, playerId, from, to) ==
  LET g == game[p]
      ans == [NoLast EXCEPT !.proc = p, !.op = "move", !.playerId = playerId,
                            !.from = from, !.to = to]
      v == moveVerdict(recs[g], seats[recs[g].players], playerId, from, to)
  IN
  IF g = 0
    THEN Respond(p, store, recs, seats,
           [ans EXCEPT !.code = 404, !.error = "Game not found"])
  ELSE IF v # "ok"
    THEN Respond(p, store, recs, seats,
           [ans EXCEPT !.code = IF v = "TypeError" THEN 500 ELSE 400,
                       !.error = v])
  ELSE LET l == getGame(store, recs, seats)
       IN /\ Commit(store, [game EXCEPT ![p] = 0],
                    [ugame EXCEPT ![p] = l.ref], l.rh, l.sh)
          /\ pc' = [pc EXCEPT ![p] = "move_upd"]
          /\ upd' = [upd EXCEPT ![p] =
                       [NoUpd EXCEPT !.updates = moveUpdates(recs[g].board, from,
                                                             to, recs[g].turn),
                                     !.playerId = playerId,
                                     !.from = from, !.to = to]]
          /\ last' = NoLast

MoveCheck(p, Ids, Moves) ==
  /\ pc[p] = "move_loaded"
  /\ \E playerId \in Ids, m \in Moves : moveCheck(p, playerId, m.from, m.to)
  /\ UNCHANGED <<useRedis, clock, hist, rules>>

\* updateGame(id, { board: newBoard, turn: newTurn }) after its await, and
\* the handler's answer: the record written, or null.
MoveWrite(p) ==
  /\ pc[p] = "move_upd"
  /\ LET w == updateGame(ugame[p], upd[p].updates, recs, seats)
     IN Respond(p, w.st, w.rh, w.sh,
          [NoLast EXCEPT !.proc = p, !.op = "move", !.code = 200,
                         !.playerId = upd[p].playerId,
                         !.from = upd[p].from, !.to = upd[p].to,
                         !.wrote = w.wrote,
                         !.session = IF w.wrote THEN View(w.rh, w.sh, w.st)
                                     ELSE NoView])
  /\ hist' = IF ugame[p] = 0 \/ ~hist.on THEN hist
             ELSE [on |-> TRUE, n |-> hist.n + 1, mover |-> upd[p].playerId,
                   move |-> [from |-> upd[p].from, to |-> upd[p].to],
                   prev |-> hist.move, told |-> hist.told]
  /\ UNCHANGED <<useRedis, clock, rules>>

-----------------------------------------------------------------------------
(* Inputs *)

Mv(fr, fc, tr, tc) == [from |-> Pos(fr, fc), to |-> Pos(tr, tc)]

AllIds == {"p1", "p2", "p3", EMPTY, NULL, UNDEF}
TwoIds == {"p1", "p2"}
Names == {"Alice", "Bob"}
OneName == {"Alice"}

\* e2-e4, a black reply (f7-f6), a three-square pawn move, a move from an
\* empty square, a destination and a source off the grid.
FewMoves ==
  {Mv(6, 4, 4, 4), Mv(1, 5, 2, 5), Mv(6, 4, 3, 4), Mv(4, 0, 3, 0),
   Mv(6, 0, 8, 0), Mv(8, 0, 7, 0)}

\* e2-e4 and the reply f7-f6.
TwoMoves == {Mv(6, 4, 4, 4), Mv(1, 5, 2, 5)}

\* The five plies that end with the white queen taking the black king
\* (e4, f6, Qh5, a6, Qxe8), the black queen taking back, and a rook move
\* through its own pawn.
PlayMoves ==
  {Mv(6, 4, 4, 4), Mv(1, 5, 2, 5), Mv(7, 3, 3, 7), Mv(1, 0, 2, 0),
   Mv(3, 7, 0, 4), Mv(0, 3, 0, 4), Mv(7, 0, 5, 0)}

\* Inputs of direct calls of the rules engine.  The piece under test, of
\* any kind and colour or none, stands on one of four squares: the white and
\* the black pawns' home rows, a corner and the middle.  Up to two other
\* pieces, one white and one black kind, stand on squares around it.
Kinds == {"p", "r", "n", "b", "q", "k"}
Colors == {"w", "b"}
Pieces == {Pc(t, c) : t \in Kinds, c \in Colors}
Others == {Pc("p", "w"), Pc("n", "b")}
RuleFroms == {Pos(6, 4), Pos(1, 4), Pos(7, 0), Pos(3, 3)}
Offsets ==
  {<<-1, 0>>, <<-2, 0>>, <<1, 0>>, <<2, 0>>, <<-1, -1>>, <<-1, 1>>,
   <<1, -1>>, <<1, 1>>, <<0, 3>>, <<0, 5>>, <<-2, -2>>, <<-2, 2>>}
Around(f) ==
  {sq \in {Pos(f.row + o[1], f.col + o[2]) : o \in Offsets} : InGrid(sq)}

\* Destinations: the grid and one square beyond it on every side.
Targets == {Pos(r, c) : r \in -1..8, c \in -1..8}

EmptyBoard == [r \in Rows |-> [c \in Rows |-> None]]
Place(board, sq, piece) == [board EXCEPT ![sq.row][sq.col] = piece]

\* The inputs with `piece` on f, k1 on s1 and k2 on s2, for turn t.
RuleInput(f, piece, s1, k1, s2, k2, t) ==
  [NoRules EXCEPT
     !.op = "input",
     !.board = Place(Place(Place(EmptyBoard, s1, k1), s2, k2), f, piece),
     !.from = f,
     !.turn = t]

-----------------------------------------------------------------------------
(* Specifications *)

\* Requests interleave at every await.
Next ==
  \/ \E p \in Procs : Create(p, FALSE)
  \/ \E p \in Procs : JoinLoad(p, FALSE)
  \/ \E p \in Procs : JoinCheck(p, TwoIds, OneName)
  \/ \E p \in Procs : JoinWrite(p)
  \/ \E p \in Procs : MoveLoad(p, FALSE)
  \/ \E p \in Procs : MoveCheck(p, TwoIds, TwoMoves)
  \/ \E p \in Procs : MoveWrite(p)

Spec == Init /\ [][Next]_vars

\* One request at a time: each runs to its answer before the next starts.
SeqNext ==
  \/ Tick
  \/ Create(1, TRUE)
  \/ JoinLoad(1, TRUE)
  \/ JoinCheck(1, AllIds, Names)
  \/ JoinWrite(1)
  \/ MoveLoad(1, TRUE)
  \/ MoveCheck(1, AllIds, FewMoves)
  \/ MoveWrite(1)

SeqSpec == Init /\ [][SeqNext]_vars

\* Sequential play between two joined players.
PlayNext ==
  \/ Create(1, TRUE)
  \/ JoinLoad(1, TRUE)
  \/ JoinCheck(1, TwoIds, OneName)
  \/ JoinWrite(1)
  \/ MoveLoad(1, TRUE)
  \/ MoveCheck(1, TwoIds, PlayMoves)
  \/ MoveWrite(1)

PlaySpec == Init /\ [][PlayNext]_vars

\* isValidMove is called on the inputs, for every destination.
Validate ==
  /\ rules.op # "none"
  /\ rules' = [rules EXCEPT
       !.op = "isValidMove",
       !.valid = {to \in Targets :
                    isValidMove(rules.board, rules.from, to, rules.turn)},
       !.moves = <<>>,
       !.to = NoPos,
       !.result = <<>>]
  /\ UNCHANGED <<useRedis, store, recs, seats, pc, game, ugame, upd, clock,
                 last, hist>>

\* getValidMoves is called on the inputs.
Enumerate ==
  /\ rules.op # "none"
  /\ rules' = [rules EXCEPT
       !.op = "getValidMoves",
       !.valid = {},
       !.moves = getValidMoves(rules.board, rules.from, rules.turn),
       !.to = NoPos,
       !.result = <<>>]
  /\ UNCHANGED <<useRedis, store, recs, seats, pc, game, ugame, upd, clock,
                 last, hist>>

\* Either the rules engine is called directly on drawn inputs (no store is
\* involved), or it is called by the move requests of a sequential play.
RulesInit ==
  /\ InitSession
  /\ hist = NoHist
  /\ \/ rules = NoRules
     \/ /\ ~useRedis
        /\ \E f \in RuleFroms, piece \in Pieces \cup {None}, t \in Colors :
             \E s1 \in Around(f), s2 \in Around(f) :
               \E k1 \in Others \cup {None}, k2 \in Others \cup {None} :
                 rules = RuleInput(f, piece, s1, k1, s2, k2, t)

RulesNext ==
  \/ Validate
  \/ Enumerate
  \/ rules = NoRules /\ PlayNext

RulesSpec == RulesInit /\ [][RulesNext]_vars

\* Destinations of direct calls of makeMove, as offsets from the source:
\* the source itself, squares that may hold a piece and one that is empty.
ApplyOffsets == {<<0, 0>>, <<-1, 0>>, <<-1, 1>>, <<-2, -2>>, <<0, 3>>, <<0, 1>>}

\* makeMove is called on the inputs and a destination in the grid, whether
\* or not isValidMove allows the move.
Apply ==
  /\ rules.op # "none"
  /\ \E o \in ApplyOffsets :
       LET to == Pos(rules.from.row + o[1], rules.from.col + o[2]) IN
       /\ InGrid(to)
       /\ rules' = [rules EXCEPT
            !.op = "makeMove",
            !.valid = {},
            !.moves = <<>>,
            !.to = to,
            !.result = makeMove(rules.board, rules.from, to)]
  /\ UNCHANGED <<useRedis, store, recs, seats, pc, game, ugame, upd, clock,
                 last, hist>>

\* Two white moves that can race: e2-e4 and d2-d4.
RaceMoves == {Mv(6, 4, 4, 4), Mv(6, 3, 4, 3)}

\* The player of the racing requests: the one who joins first, white.
RaceIds == {"p1"}

\* Two players join one after the other; white's move requests interleave.
RaceNext ==
  \/ Create(1, TRUE)
  \/ JoinLoad(1, TRUE)
  \/ JoinCheck(1, TwoIds, OneName)
  \/ JoinWrite(1)
  \/ \E p \in Procs : MoveLoad(p, FALSE)
  \/ \E p \in Procs : MoveCheck(p, RaceIds, RaceMoves)
  \/ \E p \in Procs : MoveWrite(p)

RaceSpec == HistInit /\ [][RaceNext]_vars

\* Two player ids, and the null a request body may carry in their place.
TurnIds == {"p1", "p2", NULL}

\* One request at a time, over e2-e4 and f7-f6.
TurnNext ==
  \/ Create(1, TRUE)
  \/ JoinLoad(1, TRUE)
  \/ JoinCheck(1, TurnIds, OneName)
  \/ JoinWrite(1)
  \/ MoveLoad(1, TRUE)
  \/ MoveCheck(1, TurnIds, TwoMoves)
  \/ MoveWrite(1)

TurnSpec == HistInit /\ [][TurnNext]_vars

\* makeMove is called either directly on drawn inputs, or by move requests
\* that race for one stored session.
BoardNext ==
  \/ Apply
  \/ rules = NoRules /\ RaceNext

BoardSpec == RulesInit /\ [][BoardNext]_vars

\* The plies that end with the white queen taking the black king (e4, f6,
\* Qh5, a6 with the black king attacked, Qxe8), the black queen taking
\* back, and d2-d4.
KingMoves ==
  {Mv(6, 4, 4, 4), Mv(1, 5, 2, 5), Mv(7, 3, 3, 7), Mv(1, 0, 2, 0),
   Mv(3, 7, 0, 4), Mv(0, 3, 0, 4), Mv(6, 3, 4, 3)}

\* Sequential play between two joined players, with the accepted moves
\* remembered.
KingNext ==
  \/ Create(1, TRUE)
  \/ JoinLoad(1, TRUE)
  \/ JoinCheck(1, TwoIds, OneName)
  \/ JoinWrite(1)
  \/ MoveLoad(1, TRUE)
  \/ MoveCheck(1, TwoIds, KingMoves)
  \/ MoveWrite(1)

KingSpec == HistInit /\ [][KingNext]_vars

\* One session, created once: the join and move requests for it interleave
\* at every await, and no createGame is called for its id again.
SessionNext ==
  \/ store = 0 /\ \E p \in Procs : Create(p, FALSE)
  \/ \E p \in Procs : JoinLoad(p, FALSE)
  \/ \E p \in Procs : JoinCheck(p, TwoIds, OneName)
  \/ \E p \in Procs : JoinWrite(p)
  \/ \E p \in Procs : MoveLoad(p, FALSE)
  \/ \E p \in Procs : MoveCheck(p, TwoIds, TwoMoves)
  \/ \E p \in Procs : MoveWrite(p)

SessionSpec == Init /\ [][SessionNext]_vars

\* One session, created once, and the join requests for it, which interleave
\* at every await; the answers given are remembered.
JoinsNext ==
  \/ store = 0 /\ \E p \in Procs : Create(p, FALSE)
  \/ \E p \in Procs : JoinLoad(p, FALSE)
  \/ \E p \in Procs : JoinCheck(p, TwoIds, OneName)
  \/ \E p \in Procs : JoinWrite(p)

JoinsSpec == HistInit /\ [][JoinsNext]_vars

-----------------------------------------------------------------------------
(* Vocabulary of the properties *)

\* A slot or a player id that is not the unset marker (null, or absent).
IsSet(v) == v \notin {NULL, UNDEF}

SlotOf(sl, c) == IF c = "w" THEN sl.white ELSE sl.black
NameOf(sl, c) == IF c = "w" THEN sl.whiteName ELSE sl.blackName

\* Player pid sits in the slot of colour c.
Occupies(sl, pid, c) == IsSet(pid) /\ SlotOf(sl, c) = pid

Other(c) == IF c = "w" THEN "b" ELSE "w"

\* The session request p loaded, and its two slots.
Loaded(p) == recs[game[p]]
LoadedSeats(p) == seats[recs[game[p]].players]

\* The step of request p that follows its load of an existing session.
JoinChecks(p) == pc[p] = "join_loaded" /\ pc'[p] # "join_loaded" /\ game[p] # 0
MoveChecks(p) == pc[p] = "move_loaded" /\ pc'[p] # "move_loaded" /\ game[p] # 0

\* The inputs of the request that takes such a step: kept by the request
\* when it goes on to write, part of its answer when it ends.
JoinPid(p) == IF pc'[p] = "join_upd" THEN upd'[p].playerId ELSE last'.playerId
JoinName(p) == IF pc'[p] = "join_upd" THEN upd'[p].name ELSE last'.name
MovePid(p) == IF pc'[p] = "move_upd" THEN upd'[p].playerId ELSE last'.playerId
MoveFrom(p) == IF pc'[p] = "move_upd" THEN upd'[p].from ELSE last'.from
MoveTo(p) == IF pc'[p] = "move_upd" THEN upd'[p].to ELSE last'.to

\* The standard starting layout, square by square.
StdLayout ==
  << <<"br", "bn", "bb", "bq", "bk", "bb", "bn", "br">>,
     <<"bp", "bp", "bp", "bp", "bp", "bp", "bp", "bp">>,
     <<"--", "--", "--", "--", "--", "--", "--", "--">>,
     <<"--", "--", "--", "--", "--", "--", "--", "--">>,
     <<"--", "--", "--", "--", "--", "--", "--", "--">>,
     <<"--", "--", "--", "--", "--", "--", "--", "--">>,
     <<"wp", "wp", "wp", "wp", "wp", "wp", "wp", "wp">>,
     <<"wr", "wn", "wb", "wq", "wk", "wb", "wn", "wr">> >>

\* A square of a board, written as in StdLayout.
Code(piece) == IF piece = None THEN "--" ELSE piece.color \o piece.type
IsStdLayout(board) ==
  /\ DOMAIN board = Rows
  /\ \A r \in Rows :
       /\ DOMAIN board[r] = Rows
       /\ \A c \in Rows : Code(board[r][c]) = StdLayout[r + 1][c + 1]

\* The board after the piece on `from` went to `to`, square by square.
MovedBoard(board, from, to) ==
  [r \in Rows |-> [c \in Rows |->
     IF r = from.row /\ c = from.col THEN None
     ELSE IF r = to.row /\ c = to.col THEN board[from.row][from.col]
     ELSE board[r][c]]]

-----------------------------------------------------------------------------
(* Properties *)

\* C1: a move request whose player id sits in neither slot, or only in the
\* slot of the colour that is not to move, is answered "Not your turn" and
\* leaves the stored session as it was.
C1_TurnCheck ==
  [][\A p \in Procs :
       (MoveChecks(p) /\ ~Occupies(LoadedSeats(p), MovePid(p), Loaded(p).turn))
         => /\ pc'[p] = "idle"
            /\ last'.error = "Not your turn"
            /\ Stored' = Stored]_vars

\* C2: run alone, a move request of the player whose colour is to move, for
\* a move isValidMove accepts, goes on to write; its write puts the moved
\* board and the other colour's turn into the stored session, and the
\* answer is the session as stored.
C2_AcceptedMove ==
  [][\A p \in Procs :
       /\ (/\ MoveChecks(p)
           /\ Occupies(LoadedSeats(p), MovePid(p), Loaded(p).turn)
           /\ MoveFrom(p).row \in Rows
           /\ isValidMove(Loaded(p).board, MoveFrom(p), MoveTo(p), Loaded(p).turn))
          => pc'[p] = "move_upd"
       /\ (pc[p] = "move_upd" /\ pc'[p] = "idle")
          => /\ Stored'.board = MovedBoard(Stored.board, upd[p].from, upd[p].to)
             /\ Stored'.turn = Other(Stored.turn)
             /\ last'.code = 200
             /\ last'.session = Stored']_vars

\* Scenario C: p1, white, has played e2-e4.
C2_Witness ==
  /\ last.op = "move" /\ last.code = 200 /\ last.wrote
  /\ last.playerId = "p1" /\ Stored.white = "p1"
  /\ last.from = Pos(6, 4) /\ last.to = Pos(4, 4)
  /\ Stored.board[4][4] = Pc("p", "w") /\ Stored.board[6][4] = None
  /\ Stored.turn = "b"

\* C3: a move request of the player whose colour is to move, for a move
\* isValidMove rejects, is answered "Invalid move", writes nothing and
\* leaves the stored session, its board and turn included, as it was.
C3_IllegalMove ==
  [][\A p \in Procs :
       (/\ MoveChecks(p)
        /\ Occupies(LoadedSeats(p), MovePid(p), Loaded(p).turn)
        /\ MoveFrom(p).row \in Rows
        /\ ~isValidMove(Loaded(p).board, MoveFrom(p), MoveTo(p), Loaded(p).turn))
         => /\ pc'[p] = "idle"
            /\ last'.code = 400 /\ last'.error = "Invalid move"
            /\ ~last'.wrote
            /\ Stored' = Stored]_vars

\* White, to move, asked for a three-square pawn move and was refused.
C3_Witness ==
  /\ last.op = "move" /\ last.error = "Invalid move"
  /\ last.from = Pos(6, 4) /\ last.to = Pos(3, 4)
  /\ store # 0 /\ Stored.turn = "w"
  /\ Occupies([white |-> Stored.white, black |-> Stored.black],
              last.playerId, "w")

\* C4: joins run one after another.  A join of a session with both slots
\* unset is given white; a join of a session whose white slot is taken and
\* whose black slot is unset, by another player, is given black; the write
\* of a join stores the id and the name in the slot of the colour given,
\* and leaves the status waiting for white and active for black.
C4_JoinAssign ==
  [][\A p \in Procs :
       /\ (/\ JoinChecks(p)
           /\ ~IsSet(LoadedSeats(p).white) /\ ~IsSet(LoadedSeats(p).black)
           /\ IsSet(JoinPid(p)))
          => pc'[p] = "join_upd" /\ upd'[p].color = "w"
       /\ (/\ JoinChecks(p)
           /\ IsSet(LoadedSeats(p).white) /\ ~IsSet(LoadedSeats(p).black)
           /\ IsSet(JoinPid(p)) /\ JoinPid(p) # LoadedSeats(p).white)
          => pc'[p] = "join_upd" /\ upd'[p].color = "b"
       /\ (pc[p] = "join_upd" /\ pc'[p] = "idle")
          => /\ last'.code = 200 /\ last'.color = upd[p].color
             /\ SlotOf([white |-> Stored'.white, black |-> Stored'.black],
                       upd[p].color) = upd[p].playerId
             /\ NameOf([whiteName |-> Stored'.whiteName,
                        blackName |-> Stored'.blackName],
                       upd[p].color) = upd[p].name
             /\ Stored'.status = IF upd[p].color = "b" THEN "active"
                                 ELSE "waiting"]_vars

\* C5: a join of a session whose two slots are taken by other players is
\* answered "Game is full", is given no colour and leaves the stored session
\* as it was.
C5_JoinFull ==
  [][\A p \in Procs :
       (/\ JoinChecks(p)
        /\ IsSet(LoadedSeats(p).white) /\ IsSet(LoadedSeats(p).black)
        /\ JoinPid(p) # LoadedSeats(p).white
        /\ JoinPid(p) # LoadedSeats(p).black)
         => /\ pc'[p] = "idle"
            /\ last'.error = "Game is full" /\ last'.color = NULL
            /\ Stored' = Stored]_vars

\* The answer every join of a full session gets.
FullAnswer == [code |-> 400, error |-> "Game is full"]

\* C6: a join of an id with no stored session creates none and is given an
\* answer that differs from the answer to a join of a full session.
C6_JoinMissing ==
  [][\A p \in Procs :
       (pc[p] = "join_loaded" /\ pc'[p] # "join_loaded" /\ game[p] = 0)
         => /\ pc'[p] = "idle"
            /\ store = 0 => store' = 0
            /\ [code |-> last'.code, error |-> last'.error] # FullAnswer]_vars

\* C7: a join by a player id that one of the slots holds is answered with
\* that slot's colour, writes nothing and leaves the stored session as it
\* was, whatever name it brings; and right after a join was answered with a
\* colour, the stored slots are such that the same id is given that colour
\* again.
C7_Rejoin ==
  /\ [][\A p \in Procs :
          (/\ JoinChecks(p)
           /\ \/ LoadedSeats(p).white = JoinPid(p)
              \/ LoadedSeats(p).black = JoinPid(p))
            => /\ pc'[p] = "idle"
               /\ last'.code = 200
               /\ last'.color = IF LoadedSeats(p).white = JoinPid(p)
                                THEN "w" ELSE "b"
               /\ ~last'.wrote
               /\ Stored' = Stored]_vars
  /\ []((last.op = "join" /\ last.code = 200)
          => /\ last.color \in {"w", "b"}
             /\ last.color = "w" => Stored.white = last.playerId
             /\ last.color = "b" => /\ Stored.black = last.playerId
                                    /\ Stored.white # last.playerId)

\* Alice's p1 joined again under the name Bob and was given its colour.
C7_Witness ==
  /\ last.op = "join" /\ last.code = 200 /\ ~last.wrote
  /\ last.playerId = "p1" /\ last.name = "Bob" /\ last.color = "b"
  /\ Stored.black = "p1" /\ Stored.blackName = "Alice"

\* C8: right after createGame the stored session, which is also the
\* answer, has the given id, the standard starting layout, white to move,
\* no players, no names, status waiting and no winner.
C8_CreateSession ==
  last.op = "create"
    => /\ store # 0
       /\ last.session = Stored
       /\ Stored.id = GameId
       /\ IsStdLayout(Stored.board)
       /\ Stored.turn = "w"
       /\ Stored.white = NULL /\ Stored.black = NULL
       /\ Stored.whiteName = NULL /\ Stored.blackName = NULL
       /\ Stored.status = "waiting"
       /\ Stored.winner = NULL
       /\ DOMAIN Stored = {"id", "board", "turn", "white", "black", "whiteName",
                           "blackName", "status", "winner", "lastMove"}

\* createGame has just answered with the session it stored.
C8_Witness ==
  /\ last.op = "create" /\ last.code = 200 /\ last.wrote
  /\ store # 0 /\ last.session.id = GameId

\* C9: in every stored session the status is active if both slots are
\* taken and waiting if not.
C9_StatusSlots ==
  store # 0 =>
    Stored.status = IF IsSet(Stored.white) /\ IsSet(Stored.black)
                    THEN "active" ELSE "waiting"

\* C10: no stored session is finished or has a winner.
C10_NeverFinished ==
  store # 0 => Stored.status # "finished" /\ Stored.winner = NULL

\* The white queen has just taken the black king on e8.
C10_Witness ==
  /\ last.op = "move" /\ last.wrote /\ last.to = Pos(0, 4)
  /\ Stored.board[0][4] = Pc("q", "w")
  /\ \A r \in Rows, c \in Rows : Stored.board[r][c] # Pc("k", "b")

\* C11: a move request writes the board and the turn it computed from the
\* session it loaded, whatever has been stored since, and is answered as
\* accepted; so of two requests that loaded the same session the one that
\* writes later leaves its own move only, with the turn advanced once.
C11_LostUpdate ==
  [][\A p \in Procs :
       /\ (MoveChecks(p) /\ pc'[p] = "move_upd")
          => /\ upd'[p].updates.board =
                  MovedBoard(Loaded(p).board, MoveFrom(p), MoveTo(p))
             /\ upd'[p].updates.turn = Other(Loaded(p).turn)
       /\ (pc[p] = "move_upd" /\ pc'[p] = "idle" /\ ugame[p] # 0)
          => /\ last'.code = 200 /\ last'.wrote
             /\ Stored'.board = upd[p].updates.board
             /\ Stored'.turn = upd[p].updates.turn]_vars

\* d2-d4 and then e2-e4 were both accepted since the session was created;
\* the stored board is the starting position with e2-e4 alone, black to move.
C11_Witness ==
  /\ last.op = "move" /\ last.code = 200 /\ last.wrote
  /\ hist.n = 2
  /\ hist.prev = Mv(6, 3, 4, 3) /\ hist.move = Mv(6, 4, 4, 4)
  /\ Stored.board = MovedBoard(initialBoard, Pos(6, 4), Pos(4, 4))
  /\ Stored.board[6][3] = Pc("p", "w") /\ Stored.board[4][3] = None
  /\ Stored.turn = "b"

\* C12: with one request at a time, the turn of a session is white after an
\* even number of accepted moves and black after an odd number; a move
\* request of the player whose move was accepted last is answered "Not your
\* turn", and no accepted move is by the player of the accepted move before.
C12_TurnAlternation ==
  /\ [](store # 0 /\ hist.on
          => Stored.turn = IF hist.n % 2 = 0 THEN "w" ELSE "b")
  /\ [][\A p \in Procs :
          /\ (MoveChecks(p) /\ hist.n > 0 /\ MovePid(p) = hist.mover)
             => pc'[p] = "idle" /\ last'.error = "Not your turn"
          /\ (pc[p] = "move_upd" /\ pc'[p] = "idle" /\ last'.wrote)
             => upd[p].playerId # hist.mover]_vars

-----------------------------------------------------------------------------
(* Vocabulary of the properties of the rules engine *)

\* isValidMove, or getValidMoves, has been called on the inputs.
Validated == rules.op = "isValidMove"
Enumerated == rules.op = "getValidMoves"

\* The square `from` of the call and what stands on it and on square sq.
From == rules.from
Standing(sq) == rules.board[sq.row][sq.col]
Mover == Standing(From)

\* The piece on `from` is of the colour to move.
MoverToMove == Mover # None /\ Mover.color = rules.turn

IsEmpty(sq) == Standing(sq) = None
HoldsColor(sq, c) == Standing(sq) # None /\ Standing(sq).color = c

\* Forward for a pawn of colour c, and its home row.
Forward(c) == IF c = "w" THEN -1 ELSE 1
HomeRow(c) == IF c = "w" THEN 6 ELSE 1

\* The reference rule of the pawn.
PawnRule(from, to, c) ==
  /\ InGrid(to)
  /\ \/ /\ to.col = from.col
        /\ to.row = from.row + Forward(c)
        /\ IsEmpty(to)
     \/ /\ to.col = from.col
        /\ from.row = HomeRow(c)
        /\ to.row = from.row + 2 * Forward(c)
        /\ IsEmpty(Pos(from.row + Forward(c), from.col))
        /\ IsEmpty(to)
     \/ /\ to.row = from.row + Forward(c)
        /\ to.col \in {from.col - 1, from.col + 1}
        /\ HoldsColor(to, Other(c))

\* Square s lies strictly between a and b on the line from a to b.
Larger(x, y) == IF x > y THEN x ELSE y
Between(a, s, b) ==
  LET dr == b.row - a.row
      dc == b.col - a.col
      sr == s.row - a.row
      sc == s.col - a.col
  IN /\ sr * dc = sc * dr
     /\ sr * dr + sc * dc > 0
     /\ Larger(Abs(sr), Abs(sc)) < Larger(Abs(dr), Abs(dc))

GridSquares == {Pos(r, c) : r \in Rows, c \in Rows}

\* `to` is on a rook's line, or on a bishop's line, from `from`.
RookLine(from, to) == to.row = from.row \/ to.col = from.col
BishopLine(from, to) == Abs(to.row - from.row) = Abs(to.col - from.col)

KnightOffsets ==
  {<<1, 2>>, <<1, -2>>, <<-1, 2>>, <<-1, -2>>,
   <<2, 1>>, <<2, -1>>, <<-2, 1>>, <<-2, -1>>}

\* The elements of a sequence.
Range(seq) == {seq[i] : i \in DOMAIN seq}

-----------------------------------------------------------------------------
(* Properties of the rules engine *)

\* C13: for a piece of the colour to move on an in-grid `from`, isValidMove
\* is false for every `to` whose row or column is off the grid.
C13_OffGridTarget ==
  (Validated /\ InGrid(From) /\ MoverToMove)
    => \A to \in Targets : ~InGrid(to) => to \notin rules.valid

\* A white knight in the corner a1: b3 is valid, the knight's squares below
\* the board are not.
C13_Witness ==
  /\ Validated /\ From = Pos(7, 0) /\ Mover = Pc("n", "w") /\ rules.turn = "w"
  /\ Pos(5, 1) \in rules.valid
  /\ Pos(8, 2) \in Targets /\ Pos(8, 2) \notin rules.valid

\* C14: isValidMove is false for every `to` when `from` is empty or holds a
\* piece of the colour that is not to move; and every move request that goes
\* on to write moves, on the board it loaded, a piece of the colour to move.
C14_MoverOfTurn ==
  /\ []((Validated /\ ~MoverToMove) => rules.valid = {})
  /\ [][\A p \in Procs :
          (MoveChecks(p) /\ pc'[p] = "move_upd")
            => LET piece == Loaded(p).board[MoveFrom(p).row][MoveFrom(p).col]
               IN piece # None /\ piece.color = Loaded(p).turn]_vars

\* A black rook, white to move: no destination is valid.
C14_Witness ==
  /\ Validated /\ Mover = Pc("r", "b") /\ rules.turn = "w"
  /\ From = Pos(3, 3) /\ IsEmpty(Pos(2, 3))
  /\ rules.valid = {}

\* C15: isValidMove is false for every `to` that holds a piece of the
\* mover's colour, whatever the mover's kind; `to` = `from` is such a square.
C15_NoSelfCapture ==
  (Validated /\ MoverToMove)
    => /\ \A to \in rules.valid :
            InGrid(to) => ~HoldsColor(to, Mover.color)
       /\ From \notin rules.valid

\* A white king with a white pawn in front of it: the pawn's square is not
\* valid, the square next to it is.
C15_Witness ==
  /\ Validated /\ From = Pos(3, 3) /\ Mover = Pc("k", "w") /\ rules.turn = "w"
  /\ Standing(Pos(2, 3)) = Pc("p", "w")
  /\ Pos(2, 3) \notin rules.valid /\ Pos(2, 2) \in rules.valid

\* C16: for a pawn of the colour to move, isValidMove is true exactly for
\* the destinations of the reference rule: one row forward onto an empty
\* square, two rows forward from the home row over an empty square onto an
\* empty square, one row forward and one column aside onto an opposing piece.
C16_PawnRule ==
  (Validated /\ MoverToMove /\ Mover.type = "p")
    => \A to \in Targets :
         (to \in rules.valid) <=> PawnRule(From, to, Mover.color)

\* A white pawn on e2 with a black piece on f3: e3, e4 and f3 are valid.
C16_Witness ==
  /\ Validated /\ From = Pos(6, 4) /\ Mover = Pc("p", "w") /\ rules.turn = "w"
  /\ HoldsColor(Pos(5, 5), "b")
  /\ rules.valid = {Pos(5, 4), Pos(4, 4), Pos(5, 5)}

\* C17: for a pawn of the colour to move on its home row with the two
\* squares in front of it empty, getValidMoves holds both advances, holds no
\* empty diagonal square, and holds nothing but the advances and the
\* forward diagonal squares with an opposing piece.
C17_PawnHomeMoves ==
  (/\ Enumerated /\ MoverToMove /\ Mover.type = "p"
   /\ From.row = HomeRow(Mover.color)
   /\ IsEmpty(Pos(From.row + Forward(Mover.color), From.col))
   /\ IsEmpty(Pos(From.row + 2 * Forward(Mover.color), From.col)))
    => LET one == Pos(From.row + Forward(Mover.color), From.col)
           two == Pos(From.row + 2 * Forward(Mover.color), From.col)
           diagonals == {Pos(one.row, From.col - 1), Pos(one.row, From.col + 1)}
           got == Range(rules.moves)
       IN /\ one \in got /\ two \in got
          /\ \A d \in diagonals : (InGrid(d) /\ IsEmpty(d)) => d \notin got
          /\ \A m \in got :
               \/ m \in {one, two}
               \/ m \in diagonals /\ HoldsColor(m, Other(Mover.color))
          /\ Len(rules.moves) = Cardinality(got)

\* A black pawn on e7 with nothing around it: e6 and e5, in this order.
C17_Witness ==
  /\ Enumerated /\ From = Pos(1, 4) /\ Mover = Pc("p", "b") /\ rules.turn = "b"
  /\ IsEmpty(Pos(2, 3)) /\ IsEmpty(Pos(2, 5))
  /\ rules.moves = <<Pos(2, 4), Pos(3, 4)>>

\* C18: for a rook or a bishop of the colour to move and a `to` in the grid,
\* on the piece's line and not holding an own piece, isValidMove is true
\* exactly if every square strictly between `from` and `to` is empty; and a
\* rook on {7,0} with a piece on {7,3} has no valid move to {7,5}.
C18_SlidingPieces ==
  (Validated /\ MoverToMove /\ Mover.type \in {"r", "b"})
    => /\ \A to \in GridSquares :
            (/\ ~HoldsColor(to, Mover.color)
             /\ IF Mover.type = "r" THEN RookLine(From, to)
                                    ELSE BishopLine(From, to))
              => ((to \in rules.valid)
                    <=> \A sq \in GridSquares :
                          Between(From, sq, to) => IsEmpty(sq))
       /\ (Mover.type = "r" /\ From = Pos(7, 0) /\ ~IsEmpty(Pos(7, 3)))
            => Pos(7, 5) \notin rules.valid

\* Scenario F, with a black piece on {7,3}: the rook may take it and cannot
\* pass it.
C18_Witness ==
  /\ Validated /\ From = Pos(7, 0) /\ Mover = Pc("r", "w") /\ rules.turn = "w"
  /\ HoldsColor(Pos(7, 3), "b") /\ IsEmpty(Pos(7, 5))
  /\ Pos(7, 3) \in rules.valid /\ Pos(7, 5) \notin rules.valid

\* C19: for a queen on `from`, isValidMove equals, for every `to`, the
\* disjunction of isValidMove on the board with a rook of the queen's colour
\* on `from` and on the board with a bishop of that colour on `from`.
C19_QueenIsRookOrBishop ==
  (Validated /\ Mover # None /\ Mover.type = "q")
    => \A to \in Targets :
         (to \in rules.valid)
           <=> \/ isValidMove(Place(rules.board, From, Pc("r", Mover.color)),
                              From, to, rules.turn)
               \/ isValidMove(Place(rules.board, From, Pc("b", Mover.color)),
                              From, to, rules.turn)

\* A white queen on d5 with a piece on d6: it reaches a5 along the
\* row and a8 along the diagonal.
C19_Witness ==
  /\ Validated /\ From = Pos(3, 3) /\ Mover = Pc("q", "w") /\ rules.turn = "w"
  /\ ~IsEmpty(Pos(2, 3))
  /\ Pos(3, 0) \in rules.valid /\ Pos(0, 0) \in rules.valid

\* C20: for a knight of the colour to move and a `to` in the grid that holds
\* no own piece, isValidMove is true exactly if the offset is one of the
\* eight knight offsets, whatever stands on the other squares.
C20_KnightRule ==
  (Validated /\ MoverToMove /\ Mover.type = "n")
    => \A to \in GridSquares :
         ~HoldsColor(to, Mover.color)
           => ((to \in rules.valid)
                 <=> <<to.row - From.row, to.col - From.col>> \in KnightOffsets)

\* A white knight with pieces on two squares next to it jumps over them.
C20_Witness ==
  /\ Validated /\ From = Pos(3, 3) /\ Mover = Pc("n", "w") /\ rules.turn = "w"
  /\ ~IsEmpty(Pos(2, 3)) /\ ~IsEmpty(Pos(2, 4))
  /\ Pos(1, 4) \in rules.valid /\ Pos(1, 2) \in rules.valid

\* C21: for a king of the colour to move, isValidMove is true exactly for
\* the destinations in the grid that hold no piece of the king's colour and
\* lie one square away (the larger of the two distances is 1); a move of
\* two squares along the row and a move to the king's own square are
\* refused.
C21_KingRule ==
  (Validated /\ MoverToMove /\ Mover.type = "k")
    => /\ \A to \in Targets :
            (to \in rules.valid)
              <=> /\ InGrid(to)
                  /\ ~HoldsColor(to, Mover.color)
                  /\ Larger(Abs(to.row - From.row), Abs(to.col - From.col)) = 1
       /\ From \notin rules.valid
       /\ \A to \in Targets :
            Abs(to.col - From.col) = 2 => to \notin rules.valid

\* A black king on d5 with a white pawn above it and a black
\* knight below it: it takes the pawn, does not take the knight, and
\* steps sideways.
C21_Witness ==
  /\ Validated /\ From = Pos(3, 3) /\ Mover = Pc("k", "b") /\ rules.turn = "b"
  /\ Standing(Pos(2, 3)) = Pc("p", "w") /\ Standing(Pos(4, 3)) = Pc("n", "b")
  /\ Pos(2, 3) \in rules.valid /\ Pos(4, 3) \notin rules.valid
  /\ Pos(3, 4) \in rules.valid /\ Pos(3, 5) \notin rules.valid

\* The place of a grid square in the row-major order.
RowMajor(sq) == 8 * sq.row + sq.col

\* C22: the result of getValidMoves holds grid squares only, in row-major
\* order and so without duplicates; a grid square is in it exactly if
\* isValidMove holds for it; it has at most 64 elements; it is empty when
\* `from` holds no piece of the colour to move; and the call leaves the
\* board as it was.
C22_GetValidMoves ==
  /\ [](Enumerated
          => /\ Range(rules.moves) \subseteq GridSquares
             /\ \A i \in DOMAIN rules.moves, j \in DOMAIN rules.moves :
                  i < j => RowMajor(rules.moves[i]) < RowMajor(rules.moves[j])
             /\ \A to \in GridSquares :
                  (to \in Range(rules.moves))
                    <=> isValidMove(rules.board, From, to, rules.turn)
             /\ Len(rules.moves) <= 64
             /\ (~MoverToMove => rules.moves = <<>>))
  /\ [][Enumerated' => rules'.board = rules.board /\ rules'.from = rules.from]_vars

\* A white queen on d5 with a white pawn on d6 and a black knight on b7:
\* the list starts with g8, the knight's square and f7, and goes on row by
\* row.
C22_Witness ==
  /\ Enumerated /\ From = Pos(3, 3) /\ Mover = Pc("q", "w") /\ rules.turn = "w"
  /\ Standing(Pos(2, 3)) = Pc("p", "w") /\ Standing(Pos(1, 1)) = Pc("n", "b")
  /\ Len(rules.moves) > 8
  /\ rules.moves[1] = Pos(0, 6) /\ rules.moves[2] = Pos(1, 1)
  /\ rules.moves[3] = Pos(1, 5) /\ rules.moves[4] = Pos(2, 2)

\* A direct call of makeMove, its destination and the board it returned.
Applied == rules.op = "makeMove"
To == rules.to
Result(sq) == rules.result[sq.row][sq.col]

\* C23, as stated: after makeMove on any board and any two grid squares,
\* the source square is empty and the destination holds the piece that
\* stood on the source.
C23_AsStated ==
  Applied => Result(From) = None /\ Result(To) = Standing(From)

\* C23: after makeMove on any board and any two grid squares, the source
\* square is empty and, when the destination is another square, the
\* destination holds what stood on the source (a piece, or nothing).
C23_MakeMoveEndpoints ==
  Applied
    => /\ Result(From) = None
       /\ To # From => Result(To) = Standing(From)

\* A black rook is moved onto a white pawn, which its rules allow, and a
\* white pawn onto a black knight straight ahead, which they do not.
C23_Witness ==
  /\ Applied /\ To # From /\ Mover # None /\ ~IsEmpty(To)
  /\ Standing(To).color # Mover.color
  /\ Result(To) = Mover /\ Result(From) = None

\* Request p holds the session it loaded and takes no step.
Holds(p) == game[p] # 0 /\ game'[p] # 0 /\ pc'[p] = pc[p]

\* C24: makeMove leaves the board it was given as it was; the board it
\* returns agrees with that board on every square but the source and the
\* destination, and is a function of the board and the two squares.  In a
\* session, the step of a move request that calls makeMove leaves the stored
\* session as it was, and the board of a session that a request loaded
\* stays what it was while other requests write their moves.
C24_MakeMoveFrame ==
  /\ [](Applied
          => /\ \A sq \in GridSquares \ {From, To} : Result(sq) = Standing(sq)
             /\ rules.result = MovedBoard(rules.board, From, To))
  /\ [][Applied' => rules'.board = rules.board]_vars
  /\ [][\A p \in Procs :
         /\ MoveChecks(p) => Stored' = Stored
         /\ Holds(p) => recs'[game'[p]].board = recs[game[p]].board]_vars

\* A move request holds the session it loaded before another request wrote
\* its move: the stored board has changed, the loaded one is the starting
\* position.
C24_Witness ==
  \E p \in Procs :
    /\ pc[p] = "move_loaded" /\ game[p] # 0 /\ store # 0
    /\ IsStdLayout(Loaded(p).board)
    /\ ~IsStdLayout(Stored.board)

\* The answers with which a move request on a stored session is refused.
TypedRejections ==
  {[code |-> 400, error |-> "Not your turn"],
   [code |-> 400, error |-> "Invalid move"]}

\* C25: isValidMove returns a boolean for every source square, in the grid
\* or off it, so the step of a move request that checks the move either
\* goes on to write or ends with "Not your turn" or "Invalid move".
C25_NoFailure ==
  [][\A p \in Procs :
       MoveChecks(p)
         => /\ ~isValidMoveThrows(Loaded(p).board, MoveFrom(p), MoveTo(p),
                                   Loaded(p).turn)
            /\ \/ pc'[p] = "move_upd"
               \/ /\ pc'[p] = "idle"
                  /\ [code |-> last'.code, error |-> last'.error]
                       \in TypedRejections]_vars

\* C26: a step that changes the stored session, or stores one, leaves it
\* with the time of the step as its timestamp, and the stored timestamp
\* never decreases.
C26_TimestampRefresh ==
  [][/\ (store' # 0 /\ Stored' # Stored) => Stored'.lastMove = clock'
     /\ (store # 0 /\ store' # 0) => Stored'.lastMove >= Stored.lastMove]_vars

\* A step of request p other than the write that ends its updateGame.
BeforeWrite(p) == pc'[p] # pc[p] /\ pc[p] \notin {"join_upd", "move_upd"}

\* C27: the steps of a join or a move before its write leave every field of
\* the stored session as it was, in the key-value store and in the Map.
C27_WholesaleReplacement ==
  [][\A p \in Procs : BeforeWrite(p) => Stored' = Stored]_vars

\* The write step of an accepted move of request p.
MoveWrites(p) == pc[p] = "move_upd" /\ pc'[p] = "idle" /\ last'.wrote

\* The fields of a session that a move does not touch.
Untouched(v) ==
  [id |-> v.id, white |-> v.white, black |-> v.black,
   whiteName |-> v.whiteName, blackName |-> v.blackName,
   status |-> v.status, winner |-> v.winner]

\* C28: the write of an accepted move stores the move's board and turn and
\* the time of the write; the id, the two slots, the two names, the status
\* and the winner it stores are those of the session that was stored when
\* the write took place.
C28_MoveFrame ==
  [][\A p \in Procs :
       MoveWrites(p)
         => /\ store # 0
            /\ Untouched(Stored') = Untouched(Stored)
            /\ Stored'.board = upd[p].updates.board
            /\ Stored'.turn = upd[p].updates.turn
            /\ Stored'.lastMove = clock]_vars

\* The squares of a board that hold the king of colour c.
KingsOf(board, c) == {sq \in GridSquares : At(board, sq) = Pc("k", c)}

\* The king of colour c stands on a square that a piece of the other
\* colour may move to.
Attacked(board, c) ==
  \E k \in KingsOf(board, c), sq \in GridSquares :
    isValidMove(board, sq, k, Other(c))

\* C29: a move of the player to move that isValidMove accepts goes on to
\* write also when it takes the other side's king, when it leaves the
\* mover's own king attacked and when a king is missing from the board; its
\* write leaves status and winner as they were.
C29_NoKingProtection ==
  [][\A p \in Procs :
       /\ (/\ MoveChecks(p)
           /\ Occupies(LoadedSeats(p), MovePid(p), Loaded(p).turn)
           /\ isValidMove(Loaded(p).board, MoveFrom(p), MoveTo(p), Loaded(p).turn)
           /\ LET board == Loaded(p).board
                  c == Loaded(p).turn
              IN \/ At(board, MoveTo(p)) = Pc("k", Other(c))
                 \/ Attacked(makeMove(board, MoveFrom(p), MoveTo(p)), c)
                 \/ KingsOf(board, "w") = {} \/ KingsOf(board, "b") = {})
          => pc'[p] = "move_upd"
       /\ MoveWrites(p)
          => /\ Stored'.status = Stored.status
             /\ Stored'.winner = Stored.winner]_vars

\* The black king is gone; since then the black queen has taken back on e8
\* and white has played d2-d4, and the session is active.
C29_Witness ==
  /\ store # 0 /\ KingsOf(Stored.board, "b") = {}
  /\ hist.prev = Mv(0, 3, 0, 4) /\ hist.move = Mv(6, 3, 4, 3)
  /\ last.op = "move" /\ last.code = 200 /\ last.wrote
  /\ Stored.board[0][4] = Pc("q", "b") /\ Stored.board[4][3] = Pc("p", "w")
  /\ Stored.status = "active" /\ Stored.winner = NULL

\* C30: a move request that loaded a session whose status is "waiting" does
\* not go on to write, so every stored session whose status is "waiting"
\* has the starting position and white to move.
C30_NoMoveWhileWaiting ==
  /\ [][\A p \in Procs :
         (MoveChecks(p) /\ Loaded(p).status = "waiting")
           => pc'[p] # "move_upd"]_vars
  /\ []((store # 0 /\ Stored.status = "waiting")
          => IsStdLayout(Stored.board) /\ Stored.turn = "w")

\* C31: a move request whose player id is null or absent does not go on to
\* write, whatever the slots hold; playerColor gives such an id no colour.
C31_OnlyJoinedPlayersMove ==
  [][\A p \in Procs :
       (MoveChecks(p) /\ ~IsSet(MovePid(p)))
         => /\ pc'[p] # "move_upd"
            /\ playerColor(LoadedSeats(p), MovePid(p)) = NULL]_vars

\* C32: with no re-creation, no step takes the stored status from active
\* back to waiting, and no step leaves unset a stored slot that was filled.
C32_StatusMonotonic ==
  [][(store # 0 /\ store' # 0)
       => /\ Stored.status = "active" => Stored'.status = "active"
          /\ \A c \in Colors :
               IsSet(SlotOf(Stored, c)) => IsSet(SlotOf(Stored', c))]_vars

\* C33: when a join has been answered with a colour for a player, the stored
\* slot of that colour holds that player from then on; so no two players
\* have been given the same colour.
C33_JoinAnswersStayTrue ==
  /\ \A t \in hist.told : store # 0 /\ SlotOf(Stored, t[2]) = t[1]
  /\ \A t \in hist.told, u \in hist.told : t[2] = u[2] => t[1] = u[1]

\* The write step of a join of request p that was given a slot.
JoinWrites(p) == pc[p] = "join_upd" /\ pc'[p] = "idle" /\ last'.wrote

\* C34: the write of a join leaves the stored board and turn as they were
\* when the write took place, so a move written while the join was in
\* flight stays.
C34_JoinKeepsMove ==
  [][\A p \in Procs :
       JoinWrites(p)
         => /\ store # 0
            /\ Stored'.board = Stored.board
            /\ Stored'.turn = Stored.turn]_vars

\* C35: the write of an accepted move leaves the stored slots, names and
\* status as they were when the write took place, so a join written while
\* the move was in flight stays.
C35_MoveKeepsJoin ==
  [][\A p \in Procs :
       MoveWrites(p)
         => /\ store # 0
            /\ \A c \in Colors :
                 /\ SlotOf(Stored', c) = SlotOf(Stored, c)
                 /\ NameOf(Stored', c) = NameOf(Stored, c)
            /\ Stored'.status = Stored.status]_vars

\* C36: in every stored session the two slots do not hold the same player
\* id, and the black slot is filled only if the white slot is, whatever the
\* interleaving of the join and move requests of players with ids.
C36_DistinctSeats ==
  store # 0
    => /\ ~(IsSet(Stored.white) /\ Stored.white = Stored.black)
       /\ IsSet(Stored.black) => IsSet(Stored.white)

\* Both players sit, black as the one who lost the race for white, a move
\* has been written and a request is in flight.
C36_Witness ==
  /\ store # 0 /\ Stored.white = "p2" /\ Stored.black = "p1"
  /\ ~IsStdLayout(Stored.board)
  /\ \E p \in Procs : pc[p] \in {"join_upd", "move_upd"}

\* How many squares of a board hold a piece of colour c, and how many hold
\* the given piece.
CountColor(board, c) ==
  Cardinality({sq \in GridSquares :
                 At(board, sq) # None /\ At(board, sq).color = c})
CountPiece(board, piece) ==
  Cardinality({sq \in GridSquares : At(board, sq) = piece})

\* C37: in sequential play the write of an accepted move leaves the number
\* of pieces of the colour that moved as it was, takes one from the other
\* colour exactly if one of its pieces stood on the destination, and adds
\* no piece of any kind and colour; each colour has at most 16 pieces.
C37_PieceConservation ==
  /\ [][\A p \in Procs :
         MoveWrites(p)
           => LET c == Stored.turn
                  taken == IF (At(Stored.board, upd[p].to) # None
                              /\ At(Stored.board, upd[p].to).color = Other(c))
                           THEN 1 ELSE 0
              IN /\ CountColor(Stored'.board, c) = CountColor(Stored.board, c)
                 /\ CountColor(Stored'.board, Other(c))
                      = CountColor(Stored.board, Other(c)) - taken
                 /\ \A piece \in Pieces :
                      CountPiece(Stored'.board, piece)
                        <= CountPiece(Stored.board, piece)]_vars
  /\ [](store # 0 => \A c \in Colors : CountColor(Stored.board, c) <= 16)

\* Both queens have taken on e8: white has 15 pieces and black 15, with no
\* white queen and no black king on the board.
C37_Witness ==
  /\ store # 0 /\ last.op = "move" /\ last.wrote
  /\ CountColor(Stored.board, "w") = 15 /\ CountColor(Stored.board, "b") = 15
  /\ CountPiece(Stored.board, Pc("q", "w")) = 0
  /\ CountPiece(Stored.board, Pc("k", "b")) = 0
  /\ CountPiece(Stored.board, Pc("q", "b")) = 1

\* A session as createGame makes it.
IsFresh(v) ==
  /\ v.id = GameId /\ IsStdLayout(v.board) /\ v.turn = "w"
  /\ v.white = NULL /\ v.black = NULL
  /\ v.whiteName = NULL /\ v.blackName = NULL
  /\ v.status = "waiting" /\ v.winner = NULL

\* C38: createGame for an id that has a stored session stores a fresh
\* session in its place, whatever the stored one held, and answers with it.
C38_RecreateReplaces ==
  [][(store # 0 /\ last'.op = "create")
       => /\ store' # 0
          /\ IsFresh(Stored')
          /\ Stored'.lastMove = clock
          /\ last'.code = 200 /\ last'.wrote
          /\ last'.session = Stored']_vars

\* createGame has just replaced a session that a request in flight loaded
\* before: that session had p1 as white and a pawn on e4.
C38_Witness ==
  /\ last.op = "create" /\ store # 0 /\ IsFresh(Stored)
  /\ \E p \in Procs :
       /\ game[p] # 0
       /\ LoadedSeats(p).white = "p1"
       /\ Loaded(p).board[4][4] = Pc("p", "w")

====
